---- MODULE Spec2Model ----
(***************************************************************************)
(* pallas-txbuilder: the MultiAsset container (asset.rs) and the           *)
(* TransactionBuilder with its build() pipeline (builder.rs).              *)
(*                                                                         *)
(* Option<T> is a sequence of length at most one: None is <<>>, Some(x) is *)
(* <<x>>.  A HashMap is a function on its key set; its iteration order is  *)
(* not part of its logical content (std's RandomState seeds every map      *)
(* differently), so an iteration is any enumeration of the entries.        *)
(***************************************************************************)
EXTENDS Integers, Sequences, FiniteSets, TLC

VARIABLES
    builder,    \* the TransactionBuilder value being configured
    pc,         \* "config" | "built" | "done"
    result,     \* Result<Transaction, ValidationError> of build()
    twin,       \* build() of a second builder holding the same configuration
    assets,     \* the MultiAsset<i64> value being grown with add()
    adds,       \* number of add() calls so far
    add_call    \* the last add() call: receiver, arguments and result

vars == <<builder, pc, result, twin, assets, adds, add_call>>

(***************************************************************************)
(* Bounds and sample inputs                                                *)
(***************************************************************************)
MaxSize == 3        \* entries a builder configuration may hold
MaxAdds == 3        \* add() calls in a chain
MaxNameLen == 33    \* longest asset name tried

MaxAssetNameLen == 32

None == <<>>
Some(x) == <<x>>

PolicyIds == {1, 2}

Fill(b, n) == [i \in 1..n |-> b]

\* asset names as byte strings: short ones and the lengths around the limit
AssetNames == {Fill(65, n) : n \in {0, 1} \cup (MaxAssetNameLen..MaxNameLen)}

Amounts == {-1, 1}

TxIn(t, i) == [transaction_id |-> t, index |-> i]
TransactionInputs == {TxIn(1, 1), TxIn(2, 0), TxIn(2, 1)}

\* TransactionOutput: the value part only (coin plus the multi-asset map)
PlainOutput == [coin |-> 1000000, multiasset |-> <<>>]
AssetOutput == [coin |-> 1000000, multiasset |-> (1 :> (Fill(65, 1) :> 5))]
TransactionOutputs == {PlainOutput, AssetOutput}

Resolved == {None} \cup {Some(o) : o \in TransactionOutputs}
InputResolved == {None, Some(PlainOutput)}

FeeSamples == {0, 170000}

PlutusDatas == {1, 2}
ExUnitsOf(data) == [mem |-> 10 * data, steps |-> 100 * data]

RedeemerPurposes ==
    {[tag |-> "Spend", input |-> i] : i \in TransactionInputs}
    \cup {[tag |-> "Mint", policy |-> p] : p \in PolicyIds}
    \cup {[tag |-> "Cert", cert |-> 0], [tag |-> "Reward", account |-> 0]}

\* mint maps handed to mint(): any set of policies with one name each, and
\* one policy with two names
OneName == (Fill(65, 1) :> 1)
TwoNames == (Fill(65, 0) :> 1) @@ (Fill(65, 1) :> -1)
MintAssets ==
    UNION {[ps -> {OneName}] : ps \in SUBSET PolicyIds} \cup {(1 :> TwoNames)}

(***************************************************************************)
(* HashMap                                                                 *)
(***************************************************************************)
Insert(m, k, v) == [x \in (DOMAIN m) \cup {k} |-> IF x = k THEN v ELSE m[x]]

Perms(S) ==
    {s \in [1..Cardinality(S) -> S] :
        \A i, j \in 1..Cardinality(S) : i # j => s[i] # s[j]}

\* the sequences of (key, value) pairs an iteration over m may yield
HashMapIter(m) ==
    {[i \in 1..Len(p) |-> <<p[i], m[p[i]]>>] : p \in Perms(DOMAIN m)}

MapKeys(kvs) == [i \in DOMAIN kvs |-> kvs[i][1]]

(***************************************************************************)
(* asset.rs                                                                *)
(***************************************************************************)
MultiAssetNew == <<>>

MultiAssetAddOffByOne(self, policy_id, name, amount) ==
    IF Len(name) >= MaxAssetNameLen
    THEN [kind |-> "Err", error |-> "InvalidAssetName"]
    ELSE LET inner == IF policy_id \in DOMAIN self THEN self[policy_id] ELSE <<>>
         IN [kind |-> "Ok",
             value |-> Insert(self, policy_id, Insert(inner, name, amount))]
MultiAssetAdd(self, policy_id, name, amount) ==
    IF Len(name) > MaxAssetNameLen
    THEN [kind |-> "Err", error |-> "InvalidAssetName"]
    ELSE LET inner == IF policy_id \in DOMAIN self THEN self[policy_id] ELSE <<>>
         IN [kind |-> "Ok",
             value |-> Insert(self, policy_id, Insert(inner, name, amount))]

\* the flattenings MultiAsset::build may produce
MultiAssetBuild(self) ==
    LET inners == UNION {HashMapIter(self[p]) : p \in DOMAIN self}
        choice == {f \in [DOMAIN self -> inners] :
                      \A p \in DOMAIN self : f[p] \in HashMapIter(self[p])}
    IN UNION {{[i \in DOMAIN outer |-> <<outer[i][1], f[outer[i][1]]>>] :
                  f \in choice} : outer \in HashMapIter(self)}

(***************************************************************************)
(* builder.rs                                                              *)
(***************************************************************************)
\* OutputExt::is_multiasset: the value carries a non-base-currency asset
is_multiasset(o) == o.multiasset # <<>>

opt_if_empty(v) == IF v = <<>> THEN None ELSE Some(v)

TransactionBuilderNew ==
    [inputs |-> <<>>,
     outputs |-> <<>>,
     reference_inputs |-> <<>>,
     fee |-> None,
     collateral |-> <<>>,
     collateral_return |-> None,
     mint |-> None,
     redeemers |-> <<>>]

input(self, inp, resolved) ==
    [self EXCEPT !.inputs = Insert(self.inputs, inp, resolved)]

reference_input(self, inp, resolved) ==
    [self EXCEPT !.reference_inputs = Insert(self.reference_inputs, inp, resolved)]

fee(self, f) == [self EXCEPT !.fee = Some(f)]

collateral(self, inp, resolved) ==
    [self EXCEPT !.collateral = Insert(self.collateral, inp, resolved)]

collateral_return(self, out) == [self EXCEPT !.collateral_return = Some(out)]

output(self, out) == [self EXCEPT !.outputs = Append(self.outputs, out)]

mint(self, ma) == [self EXCEPT !.mint = Some(ma)]

redeemer(self, rp, data, ex_units) ==
    [self EXCEPT !.redeemers = Insert(self.redeemers, rp, <<data, ex_units>>)]

\* the sort key of sort_unstable_by_key(|x| (x.transaction_id, x.index))
InputKeyLess(a, b) ==
    \/ a.transaction_id < b.transaction_id
    \/ a.transaction_id = b.transaction_id /\ a.index < b.index

SortInputsOmitted(s) == s
RECURSIVE SortInputs(_)
SortInputs(s) ==
    IF s = <<>> THEN <<>>
    ELSE LET rest == SortInputs(Tail(s))
             x == Head(s)
             k == Cardinality({i \in DOMAIN rest : InputKeyLess(rest[i], x)})
         IN SubSeq(rest, 1, k) \o <<x>> \o SubSeq(rest, k + 1, Len(rest))

RECURSIVE SortPolicies(_)
SortPolicies(s) ==
    IF s = <<>> THEN <<>>
    ELSE LET rest == SortPolicies(Tail(s))
             x == Head(s)
             k == Cardinality({i \in DOMAIN rest : rest[i] < x})
         IN SubSeq(rest, 1, k) \o <<x>> \o SubSeq(rest, k + 1, Len(rest))

PositionOrZero(s, x) ==
    IF \E i \in DOMAIN s : s[i] = x
    THEN Some((CHOOSE i \in DOMAIN s :
                  s[i] = x /\ \A j \in 1..(i - 1) : s[j] # x) - 1)
    ELSE Some(0)
\* iter().position(|e| e == x): the zero-based index of the first match
Position(s, x) ==
    IF \E i \in DOMAIN s : s[i] = x
    THEN Some((CHOOSE i \in DOMAIN s :
                  s[i] = x /\ \A j \in 1..(i - 1) : s[j] # x) - 1)
    ELSE None

Ok(v) == [kind |-> "Ok", value |-> v]
Err(e) == [kind |-> "Err", error |-> e]
Panic == [kind |-> "Panic"]

RedeemerPurposeMissing(rp) == [variant |-> "RedeemerPurposeMissing", purpose |-> rp]
NoInputs == [variant |-> "NoInputs"]
InvalidCollateralReturn == [variant |-> "InvalidCollateralReturn"]

\* the loop over self.redeemers, entries met in the order rs
RECURSIVE ResolveRedeemers(_, _, _, _)
ResolveRedeemers(rs, inputs, mint_policies, redeemers) ==
    IF rs = <<>> THEN Ok(redeemers)
    ELSE LET rp == Head(rs)[1]
             data == Head(rs)[2][1]
             ex_units == Head(rs)[2][2]
         IN CASE rp.tag = "Spend" ->
                  LET index == Position(inputs, rp.input)
                  IN IF index = None THEN Err(RedeemerPurposeMissing(rp))
                     ELSE ResolveRedeemers(Tail(rs), inputs, mint_policies,
                              Append(redeemers,
                                  [tag |-> "Spend", index |-> index[1],
                                   data |-> data, ex_units |-> ex_units]))
              [] rp.tag = "Mint" ->
                  LET index == Position(mint_policies, rp.policy)
                  IN IF index = None THEN Err(RedeemerPurposeMissing(rp))
                     ELSE ResolveRedeemers(Tail(rs), inputs, mint_policies,
                              Append(redeemers,
                                  [tag |-> "Mint", index |-> index[1],
                                   data |-> data, ex_units |-> ex_units]))
              [] OTHER -> Panic

\* what the iterations inside build() may yield for the maps of self
Iterations(self) ==
    [inputs : {MapKeys(kv) : kv \in HashMapIter(self.inputs)},
     reference_inputs : {MapKeys(kv) : kv \in HashMapIter(self.reference_inputs)},
     collateral : {MapKeys(kv) : kv \in HashMapIter(self.collateral)},
     mint : IF self.mint = None THEN {None}
            ELSE {Some(m) : m \in MultiAssetBuild(self.mint[1])},
     redeemers : HashMapIter(self.redeemers)]

BuildInputs(it) == SortInputs(it.inputs)

MintPoliciesUnsorted(it) ==
    MapKeys(IF it.mint = None THEN <<>> ELSE it.mint[1])
MintPolicies(it) ==
    SortPolicies(MapKeys(IF it.mint = None THEN <<>> ELSE it.mint[1]))

\* self.fee.unwrap_or_default()
BodyFee(self) == IF self.fee = None THEN 0 ELSE self.fee[1]

\* self.inputs.is_empty()
NoInputsCheckSkipped(self) == FALSE
NoInputsViolated(self) == self.inputs = <<>>

\* self.collateral_return.as_ref().map(|i| i.is_multiasset()).unwrap_or(false)
CollateralReturnUnwrapOrTrue(self) ==
    IF self.collateral_return = None THEN TRUE
    ELSE is_multiasset(self.collateral_return[1])
CollateralReturnViolated(self) ==
    IF self.collateral_return = None THEN FALSE
    ELSE is_multiasset(self.collateral_return[1])

build(self, it) ==
    IF NoInputsViolated(self) THEN Err(NoInputs)
    ELSE IF CollateralReturnViolated(self) THEN Err(InvalidCollateralReturn)
    ELSE LET inputs == BuildInputs(it)
             mint_policies == MintPolicies(it)
             rs == ResolveRedeemers(it.redeemers, inputs, mint_policies, <<>>)
         IN IF rs.kind # "Ok" THEN rs
            ELSE Ok([body |->
                        [inputs |-> inputs,
                         outputs |-> self.outputs,
                         fee |-> BodyFee(self),
                         withdrawals |-> None,
                         update |-> None,
                         auxiliary_data_hash |-> None,
                         mint |-> it.mint,
                         collateral |-> opt_if_empty(it.collateral),
                         collateral_return |-> self.collateral_return,
                         total_collateral |-> None,
                         reference_inputs |-> opt_if_empty(it.reference_inputs)],
                     witness_set |->
                        [vkeywitness |-> None,
                         bootstrap_witness |-> None,
                         redeemer |-> opt_if_empty(rs.value)],
                     is_valid |-> TRUE,
                     auxiliary_data |-> None])

(***************************************************************************)
(* The builder as a state machine: a chain of setter calls, then build()   *)
(***************************************************************************)
NoResult == [kind |-> "None"]
NoCall == [kind |-> "None"]

Init ==
    /\ builder = TransactionBuilderNew
    /\ pc = "config"
    /\ result = NoResult
    /\ twin = NoResult
    /\ assets = MultiAssetNew
    /\ adds = 0
    /\ add_call = NoCall

\* entries held by a configuration
Size(b) ==
    Cardinality(DOMAIN b.inputs) + Cardinality(DOMAIN b.reference_inputs)
    + Cardinality(DOMAIN b.collateral) + Cardinality(DOMAIN b.redeemers)
    + Len(b.outputs) + Len(b.fee) + Len(b.collateral_return) + Len(b.mint)

Set(b) ==
    /\ pc = "config"
    /\ Size(b) <= MaxSize
    /\ builder' = b
    /\ UNCHANGED <<pc, result, twin, assets, adds, add_call>>

InputCall ==
    \E i \in TransactionInputs, r \in InputResolved : Set(input(builder, i, r))

ReferenceInputCall ==
    \E i \in TransactionInputs, r \in InputResolved :
        Set(reference_input(builder, i, r))

FeeCall == \E f \in FeeSamples : Set(fee(builder, f))

CollateralCall ==
    \E i \in TransactionInputs, r \in Resolved : Set(collateral(builder, i, r))

CollateralReturnCall ==
    \E o \in TransactionOutputs : Set(collateral_return(builder, o))

OutputCall == \E o \in TransactionOutputs : Set(output(builder, o))

MintCall == \E ma \in MintAssets : Set(mint(builder, ma))

RedeemerCall ==
    \E rp \in RedeemerPurposes, d \in PlutusDatas :
        Set(redeemer(builder, rp, d, ExUnitsOf(d)))

Build ==
    /\ pc = "config"
    /\ \E it \in Iterations(builder) : result' = build(builder, it)
    /\ pc' = "built"
    /\ UNCHANGED <<builder, twin, assets, adds, add_call>>

\* a second builder with the same configuration is built
BuildTwin ==
    /\ pc = "built"
    /\ \E it \in Iterations(builder) : twin' = build(builder, it)
    /\ pc' = "done"
    /\ UNCHANGED <<builder, result, assets, adds, add_call>>

Next ==
    \/ InputCall
    \/ ReferenceInputCall
    \/ FeeCall
    \/ CollateralCall
    \/ CollateralReturnCall
    \/ OutputCall
    \/ MintCall
    \/ RedeemerCall
    \/ Build
    \/ BuildTwin

Spec == Init /\ [][Next]_vars

(***************************************************************************)
(* MultiAsset as a state machine: a chain of add() calls                   *)
(***************************************************************************)
Add ==
    /\ adds < MaxAdds
    /\ \E p \in PolicyIds, n \in AssetNames, a \in Amounts :
          LET r == MultiAssetAdd(assets, p, n, a)
          IN /\ add_call' = [kind |-> "add", self |-> assets, policy_id |-> p,
                             name |-> n, amount |-> a, result |-> r]
             \* on Err the caller keeps the clone it took before the call
             /\ assets' = IF r.kind = "Ok" THEN r.value ELSE assets
    /\ adds' = adds + 1
    /\ UNCHANGED <<builder, pc, result, twin>>

NextAsset == Add

SpecAsset == Init /\ [][NextAsset]_vars

(***************************************************************************)
(* Properties                                                              *)
(***************************************************************************)
Built == pc # "config"
Succeeded == Built /\ result.kind = "Ok"
Emitted(opt) == IF opt = None THEN <<>> ELSE opt[1]

\* the policies of the configured mint map (none when no mint map was set)
ConfiguredPolicies == IF builder.mint = None THEN {} ELSE DOMAIN builder.mint[1]

\* the registered Spend and Mint purposes whose target is not configured
Unresolvable ==
    {rp \in DOMAIN builder.redeemers :
        \/ rp.tag = "Spend" /\ rp.input \notin DOMAIN builder.inputs
        \/ rp.tag = "Mint" /\ rp.policy \notin ConfiguredPolicies}

Unsupported == {rp \in DOMAIN builder.redeemers : rp.tag \in {"Cert", "Reward"}}

\* C1: whenever build() returns a transaction, body.inputs holds exactly the
\* distinct configured inputs, each once, in ascending (transaction id, index)
\* order.
C1_InputsSortedDistinct ==
    Succeeded =>
        LET ins == result.value.body.inputs
        IN /\ Len(ins) = Cardinality(DOMAIN builder.inputs)
           /\ {ins[i] : i \in DOMAIN ins} = DOMAIN builder.inputs
           /\ \A i, j \in DOMAIN ins :
                 i < j =>
                    \/ ins[i].transaction_id < ins[j].transaction_id
                    \/ /\ ins[i].transaction_id = ins[j].transaction_id
                       /\ ins[i].index < ins[j].index

\* a transaction was built from three inputs
C1_Witness ==
    Succeeded /\ Cardinality(DOMAIN builder.inputs) = 3

\* C2: in a built transaction every registered purpose has exactly one redeemer;
\* a Spend redeemer's index is the position of its input in body.inputs, a Mint
\* redeemer's index is the rank of its policy among the mint map's policies, and
\* it carries the data and execution units registered last.
C2_RedeemerFor(r, rp) ==
    /\ r.tag = rp.tag
    /\ r.data = builder.redeemers[rp][1]
    /\ r.ex_units = builder.redeemers[rp][2]
    /\ rp.tag = "Spend" =>
          /\ r.index + 1 \in DOMAIN result.value.body.inputs
          /\ result.value.body.inputs[r.index + 1] = rp.input
    /\ rp.tag = "Mint" =>
          /\ rp.policy \in ConfiguredPolicies
          /\ r.index = Cardinality({q \in ConfiguredPolicies : q < rp.policy})

C2_RedeemerIndexes ==
    Succeeded =>
        LET rs == Emitted(result.value.witness_set.redeemer)
        IN /\ Len(rs) = Cardinality(DOMAIN builder.redeemers)
           /\ \A rp \in DOMAIN builder.redeemers :
                 Cardinality({i \in DOMAIN rs : C2_RedeemerFor(rs[i], rp)}) = 1
           /\ \A i \in DOMAIN rs : rs[i].tag \in {"Spend", "Mint"}

\* a built transaction carries a redeemer whose index is not 0
C2_Witness ==
    /\ Succeeded
    /\ \E i \in DOMAIN Emitted(result.value.witness_set.redeemer) :
          Emitted(result.value.witness_set.redeemer)[i].index = 1

\* C3: with at least one input configured (the NoInputs check comes first), a
\* collateral input whose resolved output carries a multi-asset value makes
\* build() fail with InvalidCollateralInput.
MultiAssetCollateral ==
    \E i \in DOMAIN builder.collateral :
        builder.collateral[i] # None /\ is_multiasset(builder.collateral[i][1])

C3_CollateralRejected ==
    (Built /\ builder.inputs # <<>> /\ MultiAssetCollateral) =>
        result = Err([variant |-> "InvalidCollateralInput"])

C5_UnsupportedPurposeFails ==
    (Built /\ Unsupported # {}) => result.kind = "Err"

\* C6: add() with a name longer than 32 bytes fails with InvalidAssetName and
\* hands back no container; otherwise the returned container maps (policy, name)
\* to amount and agrees with the receiver on every other (policy, name).
Entry(ma, p, n) ==
    IF p \in DOMAIN ma /\ n \in DOMAIN ma[p] THEN Some(ma[p][n]) ELSE None

C6_Add ==
    add_call.kind = "add" =>
        IF Len(add_call.name) > 32
        THEN /\ add_call.result = [kind |-> "Err", error |-> "InvalidAssetName"]
             /\ assets = add_call.self
        ELSE /\ add_call.result.kind = "Ok"
             /\ assets = add_call.result.value
             /\ Entry(assets, add_call.policy_id, add_call.name)
                   = Some(add_call.amount)
             /\ \A p \in PolicyIds \cup DOMAIN assets \cup DOMAIN add_call.self :
                   \A n \in AssetNames :
                      <<p, n>> # <<add_call.policy_id, add_call.name>> =>
                         Entry(assets, p, n) = Entry(add_call.self, p, n)
             /\ \A p \in DOMAIN assets : DOMAIN assets[p] \subseteq AssetNames

\* a 32-byte name overwrote an earlier amount while another entry was held
C6_Witness ==
    /\ add_call.kind = "add"
    /\ Len(add_call.name) = 32
    /\ add_call.result.kind = "Ok"
    /\ Entry(add_call.self, add_call.policy_id, add_call.name)
          = Some(0 - add_call.amount)
    /\ \E p \in PolicyIds : p # add_call.policy_id /\ p \in DOMAIN assets

\* C7: build() on a builder without inputs fails with NoInputs, whatever else
\* is wrong with the configuration.
C7_NoInputsFirst ==
    (Built /\ builder.inputs = <<>>) => result = Err(NoInputs)

\* NoInputs was reported although the collateral return and a collateral input
\* are multi-asset and a redeemer purpose is unresolvable or unsupported
C7_Witness ==
    /\ Built
    /\ result = Err(NoInputs)
    /\ CollateralReturnViolated(builder)
    /\ MultiAssetCollateral
    /\ Unresolvable \cup Unsupported # {}

\* C8: with at least one input, a multi-asset collateral return makes build()
\* fail with InvalidCollateralReturn; an absent or base-currency collateral
\* return never does, and a built transaction carries it unchanged.
C8_CollateralReturn ==
    Built =>
        IF builder.collateral_return # None
           /\ builder.collateral_return[1].multiasset # <<>>
        THEN builder.inputs # <<>> => result = Err(InvalidCollateralReturn)
        ELSE /\ result # Err(InvalidCollateralReturn)
             /\ result.kind = "Ok" =>
                   result.value.body.collateral_return = builder.collateral_return

\* InvalidCollateralReturn was reported ahead of a redeemer problem
C8_Witness ==
    /\ Built
    /\ builder.inputs # <<>>
    /\ result = Err(InvalidCollateralReturn)
    /\ Unresolvable \cup Unsupported # {}

\* The fee strategy of section 4.4: a linear function of the byte length of the
\* encoded transaction.  The length stands in for the external codec: array and
\* map headers plus a size per entry of every field the body carries.
EncodedLen(tx) ==
    4 + 37 * Len(tx.body.inputs) + 9 * Len(tx.body.outputs)
    + (IF tx.body.fee < 24 THEN 2 ELSE 6)
    + 37 * Len(Emitted(tx.body.reference_inputs))
    + 37 * Len(Emitted(tx.body.collateral))
    + 9 * Len(tx.body.collateral_return)
    + 40 * Len(Emitted(tx.body.mint))
    + 12 * Len(Emitted(tx.witness_set.redeemer))

LinearFee(len) == 155381 + 44 * len

\* C9: the fee of a built transaction is the explicit fee when one was set and
\* otherwise base + perByte * (length of the encoding with fee 0), never 0.
C9_Fee ==
    Succeeded =>
        result.value.body.fee =
            IF builder.fee # None THEN builder.fee[1]
            ELSE LinearFee(EncodedLen([result.value EXCEPT !.body.fee = 0]))

\* C10: two builders holding the same configuration build identical
\* transactions.
C10_Deterministic ==
    (pc = "done" /\ result.kind = "Ok" /\ twin.kind = "Ok") =>
        result.value = twin.value

\* the index of a Mint redeemer points at its policy's entry of body.mint
C11_MintIndexInBody(r) ==
    r.tag = "Mint" =>
        \E rp \in DOMAIN builder.redeemers :
            /\ rp.tag = "Mint"
            /\ r.data = builder.redeemers[rp][1]
            /\ r.index + 1 \in DOMAIN Emitted(result.value.body.mint)
            /\ Emitted(result.value.body.mint)[r.index + 1][1] = rp.policy

\* the second half of C11 alone: every Mint redeemer's index is the position
\* of its policy in the emitted body.mint
C11_MintIndexesMatchBody ==
    (Succeeded /\ Cardinality(ConfiguredPolicies) >= 2) =>
        \A i \in DOMAIN Emitted(result.value.witness_set.redeemer) :
            C11_MintIndexInBody(Emitted(result.value.witness_set.redeemer)[i])

\* C11: in a built transaction whose mint map has two or more policies, the
\* entries of body.mint are in ascending policy order, and the index of every
\* Mint redeemer is the position of its policy in body.mint.
C11_MintOrder ==
    (Succeeded /\ Cardinality(ConfiguredPolicies) >= 2) =>
        LET m == Emitted(result.value.body.mint)
        IN /\ \A i, j \in DOMAIN m : i < j => m[i][1] < m[j][1]
           /\ \A i \in DOMAIN Emitted(result.value.witness_set.redeemer) :
                 C11_MintIndexInBody(Emitted(result.value.witness_set.redeemer)[i])

====
